---- MODULE Spec2Model ----
(***************************************************************************)
(* A model of the Vietnam coastlines pipeline.                             *)
(*                                                                         *)
(*  - The Argo workflow (src/unnamed/part_000): the DAG coastlines-dag     *)
(*    with its three tasks generate-ids, process-id (fanned out over the   *)
(*    tile ids with withParam) and merge, and the bash script each process *)
(*    pod runs.  Specification: Spec (FairSpec adds the controller's       *)
(*    scheduling fairness).                                                *)
(*  - The per-tile pipeline as the notebook runs it                        *)
(*    (src/notebooks/Vietnam_coastlines_generation.ipynb), cell by cell.   *)
(*    Specification: NotebookSpec.                                         *)
(***************************************************************************)
EXTENDS Integers, Sequences, FiniteSets, TLC

(***************************************************************************)
(* Bounds of the model.                                                    *)
(***************************************************************************)
\* The tiles file holds at most MaxTiles tiles.
MaxTiles == 3
\* points_on_line returns at most MaxPoints points.
MaxPoints == 2
\* The rasters have the pixels 1..MaxPixels.
MaxPixels == 2

(***************************************************************************)
(* Program constants.                                                      *)
(***************************************************************************)
\* spec.parallelism
parallelism == 200
\* The notebook's analysis parameters.
start_year == 2020
end_year == 2022
baseline_year == 2021

Tiles == 1..MaxTiles
Years == start_year..end_year

VARIABLES
  \* ---- the workflow ----
  gen,        \* phase of the task generate-ids
  ids,        \* outputs.result of generate-ids: the tile ids
  proc,       \* phase of the task process-id(t), per tile
  pc,         \* where the bash script of tile t's pod stands
  tideModels, \* per tile pod: whether /tmp/tide_models exists
  attempts,   \* per tile: how many pods were started for process-id(t)
  wgetRuns,   \* per tile: how many times the script ran wget
  dlFailed,   \* per tile: the command of the download list that failed
  merge,      \* phase of the task merge
  wf,         \* phase of the workflow (of the entrypoint DAG)
  \* ---- the notebook ----
  cell,       \* the statement the kernel executes next
  inCall,     \* whether the call of that statement has started
  raised,     \* whether an uncaught exception stopped the run
  stage,      \* per pipeline stage: notrun, running, done, skipped
  lazy,       \* per dataset: whether it is still a deferred dask graph
  contours,   \* the years indexing contours_gdf
  points,     \* points_gdf: NoneValue (None) or its length
  printed,    \* what the cells printed
  exported,   \* what export_results was called with
  columns,    \* the columns of points_gdf: its dist_<year> years and the others
  traced,     \* per year: the vertex counts of the lines traced by subpixel_contours
  mask,       \* the pixels of the coastal mask of contours_preprocess
  readPixels, \* the pixels with data in the raster passed to subpixel_contours
  \* ---- the components, each applied to drawn inputs ----
  tideFilter, \* filter_by_tides: its input stack and its result
  composite,  \* generate_yearly_composites: one pixel's observations and its result
  movement,   \* annual_movements: one point's contours and its distances
  statsEngine,\* all_time_stats: one point's distances and its statistics
  pool,       \* the workflow's pods counted, for any number of tiles
  runs        \* two runs of the workflow side by side: their parameters and commands

wfvars == <<gen, ids, proc, pc, tideModels, attempts, wgetRuns, dlFailed, merge, wf>>
nbdata == <<columns, traced, mask, readPixels>>
nbvars == <<cell, inCall, raised, stage, lazy, contours, points, printed, exported,
            columns, traced, mask, readPixels>>
fnvars == <<tideFilter, composite, movement, statsEngine, pool, runs>>
vars == <<gen, ids, proc, pc, tideModels, attempts, wgetRuns, dlFailed, merge, wf,
          cell, inCall, raised, stage, lazy, contours, points, printed, exported,
          columns, traced, mask, readPixels,
          tideFilter, composite, movement, statsEngine, pool, runs>>

(***************************************************************************)
(* The workflow.                                                           *)
(***************************************************************************)

\* A node phase that is fulfilled: the task will not run (again).
Fulfilled(p) == p \in {"Succeeded", "Failed", "Omitted"}

\* The pods that run now: generate-ids, the process-id pods, merge.
RunningPods ==
  Cardinality({t \in Tiles : proc[t] = "Running"})
    + (IF gen = "Running" THEN 1 ELSE 0)
    + (IF merge = "Running" THEN 1 ELSE 0)

\* spec.parallelism: a pod is started only below the limit.
BelowParallelism == RunningPods < parallelism

\* process-id depends on generate-ids.Succeeded.
ProcessDependsMet == gen = "Succeeded"

\* The task group process-id (one node per item of withParam) is fulfilled
\* when each of its children is, and omitted when generate-ids failed.
ProcessGroupFulfilled ==
  \/ gen = "Failed"
  \/ gen = "Succeeded" /\ \A t \in ids : Fulfilled(proc[t])

\* process-id.AnySucceeded
AnySucceeded == \E t \in ids : proc[t] = "Succeeded"

\* Mutant: the depends of merge is evaluated as soon as the task group
\* exists, without waiting for its children.
MergeDependsCompletedEarly == gen \in {"Succeeded", "Failed"}

\* A task's depends is evaluated once every task it names is fulfilled.
MergeDependsCompleted == ProcessGroupFulfilled

\* Mutant: depends: process-id, which asks for every child to succeed.
MergeDependsAllSucceeded == ids # {} /\ \A t \in ids : proc[t] = "Succeeded"

\* merge depends on process-id.AnySucceeded.
MergeDependsMet == AnySucceeded

\* Mutant: a failed tile fails the DAG whatever merge did.
AssessDAGPhaseAnyFailure ==
  IF merge = "Omitted" \/ \E t \in ids : proc[t] = "Failed" THEN "Failed" ELSE merge

\* The phase of the DAG once its one target task, merge, is fulfilled: that
\* of merge when it ran; an omitted merge passes on the phase of the
\* branch above it (generate-ids failed, or the task group failed).
AssessDAGPhase ==
  IF merge = "Omitted" THEN "Failed" ELSE merge

WfInit ==
  /\ gen = "Pending"
  /\ ids = {}
  /\ proc = [t \in Tiles |-> "Absent"]
  /\ pc = [t \in Tiles |-> "idle"]
  /\ tideModels = [t \in Tiles |-> FALSE]
  /\ attempts = [t \in Tiles |-> 0]
  /\ wgetRuns = [t \in Tiles |-> 0]
  /\ dlFailed = [t \in Tiles |-> "none"]
  /\ merge = "Pending"
  /\ wf = "Running"

\* generate-ids has no dependency: its pod is started.
StartGenerate ==
  /\ wf = "Running"
  /\ gen = "Pending"
  /\ BelowParallelism
  /\ gen' = "Running"
  /\ UNCHANGED <<ids, proc, pc, tideModels, attempts, wgetRuns, dlFailed, merge, wf>>
  /\ UNCHANGED <<nbvars, fnvars>>

\* Mutant: a process-id task for every tile of the grid, whatever ids were
\* printed.
GenerateSucceedEveryTile ==
  /\ gen = "Running"
  /\ \E S \in (SUBSET Tiles) \ {{}} :
       /\ ids' = S
       /\ proc' = [t \in Tiles |-> "Pending"]
  /\ gen' = "Succeeded"
  /\ UNCHANGED <<pc, tideModels, attempts, wgetRuns, dlFailed, merge, wf>>
  /\ UNCHANGED <<nbvars, fnvars>>

\* coastlines-print-tiles prints the ids of the tiles: one process-id task
\* per id.  The tiles file lists at least one tile and tiles-subset is []
\* (all of them), so the list is not empty.
GenerateSucceed ==
  /\ gen = "Running"
  /\ \E S \in (SUBSET Tiles) \ {{}} :
       /\ ids' = S
       /\ proc' = [t \in Tiles |-> IF t \in S THEN "Pending" ELSE "Absent"]
  /\ gen' = "Succeeded"
  /\ UNCHANGED <<pc, tideModels, attempts, wgetRuns, dlFailed, merge, wf>>
  /\ UNCHANGED <<nbvars, fnvars>>

\* coastlines-print-tiles exits non-zero.
GenerateFail ==
  /\ gen = "Running"
  /\ gen' = "Failed"
  /\ UNCHANGED <<ids, proc, pc, tideModels, attempts, wgetRuns, dlFailed, merge, wf>>
  /\ UNCHANGED <<nbvars, fnvars>>

\* Mutant: failFast across the items, no pod is started once a tile failed.
StartProcessFailFast(t) ==
  /\ wf = "Running"
  /\ ProcessDependsMet
  /\ proc[t] = "Pending"
  /\ BelowParallelism
  /\ \A u \in Tiles : proc[u] # "Failed"
  /\ proc' = [proc EXCEPT ![t] = "Running"]
  /\ pc' = [pc EXCEPT ![t] = "wget"]
  /\ attempts' = [attempts EXCEPT ![t] = @ + 1]
  /\ UNCHANGED <<gen, ids, tideModels, wgetRuns, dlFailed, merge, wf>>
  /\ UNCHANGED <<nbvars, fnvars>>

\* The pod of process-id(t) is started; its script starts at wget.
StartProcess(t) ==
  /\ wf = "Running"
  /\ ProcessDependsMet
  /\ proc[t] = "Pending"
  /\ BelowParallelism
  /\ proc' = [proc EXCEPT ![t] = "Running"]
  /\ pc' = [pc EXCEPT ![t] = "wget"]
  /\ attempts' = [attempts EXCEPT ![t] = @ + 1]
  /\ UNCHANGED <<gen, ids, tideModels, wgetRuns, dlFailed, merge, wf>>
  /\ UNCHANGED <<nbvars, fnvars>>

\* Where the script goes when a command of the list
\*   wget ... && unzip ... && mv ...
\* other than the last fails: under set -e the shell does not exit on a
\* failing command of an && list unless it is the one after the last &&.
\* The list ends with a non-zero status and the script goes on with the
\* next command, echo "Running coastlines" and then coastlines-combined.
AfterFailedListCommand == "combined"

\* Mutant: a retryStrategy with limit 1 on the template process.
OnPodFailedRetry(t, p) ==
  IF attempts[t] < 2
    THEN /\ proc' = [proc EXCEPT ![t] = "Pending"]
         /\ pc' = [pc EXCEPT ![t] = "idle"]
    ELSE /\ proc' = [proc EXCEPT ![t] = "Failed"]
         /\ pc' = [pc EXCEPT ![t] = p]

\* What the task process-id(t) does when its pod has failed at script
\* position p: the template process has no retryStrategy, so the node is
\* failed.
OnPodFailed(t, p) ==
  /\ proc' = [proc EXCEPT ![t] = "Failed"]
  /\ pc' = [pc EXCEPT ![t] = p]

\* wget of the tide model archive.
Wget(t) ==
  /\ proc[t] = "Running"
  /\ pc[t] = "wget"
  /\ wgetRuns' = [wgetRuns EXCEPT ![t] = @ + 1]
  /\ \E ok \in BOOLEAN :
       IF ok
         THEN /\ pc' = [pc EXCEPT ![t] = "unzip"]
              /\ dlFailed' = dlFailed
         ELSE /\ pc' = [pc EXCEPT ![t] = AfterFailedListCommand]
              /\ dlFailed' = [dlFailed EXCEPT ![t] = "wget"]
  /\ UNCHANGED <<gen, ids, proc, tideModels, attempts, merge, wf>>
  /\ UNCHANGED <<nbvars, fnvars>>

\* unzip of the archive into /tmp/tide_models_temp.
Unzip(t) ==
  /\ proc[t] = "Running"
  /\ pc[t] = "unzip"
  /\ \E ok \in BOOLEAN :
       IF ok
         THEN /\ pc' = [pc EXCEPT ![t] = "mv"]
              /\ dlFailed' = dlFailed
         ELSE /\ pc' = [pc EXCEPT ![t] = AfterFailedListCommand]
              /\ dlFailed' = [dlFailed EXCEPT ![t] = "unzip"]
  /\ UNCHANGED <<gen, ids, proc, tideModels, attempts, wgetRuns, merge, wf>>
  /\ UNCHANGED <<nbvars, fnvars>>

\* mv of the unpacked directory to /tmp/tide_models: the last command of
\* the list, so set -e ends the script when it fails.
Mv(t) ==
  /\ proc[t] = "Running"
  /\ pc[t] = "mv"
  /\ \E ok \in BOOLEAN :
       IF ok
         THEN /\ tideModels' = [tideModels EXCEPT ![t] = TRUE]
              /\ pc' = [pc EXCEPT ![t] = "combined"]
              /\ UNCHANGED <<proc, dlFailed>>
         ELSE /\ dlFailed' = [dlFailed EXCEPT ![t] = "mv"]
              /\ OnPodFailed(t, "exit_mv")
              /\ UNCHANGED tideModels
  /\ UNCHANGED <<gen, ids, attempts, wgetRuns, merge, wf>>
  /\ UNCHANGED <<nbvars, fnvars>>

\* coastlines-combined is started (echo "Running coastlines" before it
\* does not fail).
CombinedStart(t) ==
  /\ proc[t] = "Running"
  /\ pc[t] = "combined"
  /\ pc' = [pc EXCEPT ![t] = "in_combined"]
  /\ UNCHANGED <<gen, ids, proc, tideModels, attempts, wgetRuns, dlFailed, merge, wf>>
  /\ UNCHANGED <<nbvars, fnvars>>

\* coastlines-combined ends: the last command of the script, so its status
\* is the pod's.
CombinedEnd(t) ==
  /\ proc[t] = "Running"
  /\ pc[t] = "in_combined"
  /\ \E ok \in BOOLEAN :
       IF ok
         THEN /\ proc' = [proc EXCEPT ![t] = "Succeeded"]
              /\ pc' = [pc EXCEPT ![t] = "exit_ok"]
         ELSE OnPodFailed(t, "exit_combined")
  /\ UNCHANGED <<gen, ids, tideModels, attempts, wgetRuns, dlFailed, merge, wf>>
  /\ UNCHANGED <<nbvars, fnvars>>

\* merge is started: its depends holds.
StartMerge ==
  /\ wf = "Running"
  /\ merge = "Pending"
  /\ MergeDependsCompleted
  /\ MergeDependsMet
  /\ BelowParallelism
  /\ merge' = "Running"
  /\ UNCHANGED <<gen, ids, proc, pc, tideModels, attempts, wgetRuns, dlFailed, wf>>
  /\ UNCHANGED <<nbvars, fnvars>>

\* merge is omitted: its depends does not hold.
OmitMerge ==
  /\ wf = "Running"
  /\ merge = "Pending"
  /\ MergeDependsCompleted
  /\ ~MergeDependsMet
  /\ merge' = "Omitted"
  /\ UNCHANGED <<gen, ids, proc, pc, tideModels, attempts, wgetRuns, dlFailed, wf>>
  /\ UNCHANGED <<nbvars, fnvars>>

\* coastlines-merge ends.
MergeEnd ==
  /\ merge = "Running"
  /\ \E ok \in BOOLEAN : merge' = IF ok THEN "Succeeded" ELSE "Failed"
  /\ UNCHANGED <<gen, ids, proc, pc, tideModels, attempts, wgetRuns, dlFailed, wf>>
  /\ UNCHANGED <<nbvars, fnvars>>

\* The DAG, and with it the workflow, ends once its target task is
\* fulfilled.
FinishWorkflow ==
  /\ wf = "Running"
  /\ Fulfilled(merge)
  /\ wf' = AssessDAGPhase
  /\ UNCHANGED <<gen, ids, proc, pc, tideModels, attempts, wgetRuns, dlFailed, merge>>
  /\ UNCHANGED <<nbvars, fnvars>>

WfNext ==
  \/ StartGenerate
  \/ GenerateSucceed
  \/ GenerateFail
  \/ \E t \in Tiles : StartProcess(t)
  \/ \E t \in Tiles : Wget(t)
  \/ \E t \in Tiles : Unzip(t)
  \/ \E t \in Tiles : Mv(t)
  \/ \E t \in Tiles : CombinedStart(t)
  \/ \E t \in Tiles : CombinedEnd(t)
  \/ StartMerge
  \/ OmitMerge
  \/ MergeEnd
  \/ FinishWorkflow

(***************************************************************************)
(* The notebook: one run of its code cells, top to bottom.  A call is two  *)
(* steps, its start and its return; the cells that only plot or preview    *)
(* (the web map) change nothing the pipeline reads and are left out.       *)
(***************************************************************************)

Stages == {"TideFilter", "CompositeBuilder", "CoastalMasker", "ContourExtractor",
           "PointSampler", "MovementMeasurer", "StatsEngine", "Export"}

Datasets == {"ds", "filtered", "combined_ds", "masked_ds"}

\* points_gdf = None
NoneValue == -1

\* min_vertices=10
min_vertices == 10

Pixels == 1..MaxPixels

\* The vertex counts of the traced lines: one short of min_vertices, and
\* min_vertices.
VertexCounts == (min_vertices - 1)..min_vertices

\* The pixels with data in the dataset called name: contours_preprocess
\* leaves data where the coastal mask is true.
DataPixels(name) == IF name = "masked_ds" THEN mask ELSE Pixels

\* Mutant: the contours are traced on the composite.
ContourInputCombined == "combined_ds"

\* subpixel_contours(da=masked_ds, ...)
ContourInput == "masked_ds"

\* Mutant: every traced line is kept.
QualifyingLinesAll(lines) == lines

\* The lines kept of those traced: the ones of min_vertices or more.
QualifyingLines(lines) == {v \in lines : v >= min_vertices}

\* .set_index("year"): the years left with a line index the result.
ContourYears(tr) == {y \in Years : QualifyingLines(tr[y]) # {}}

\* Mutant: the contour cell is run before the masking cell.
NextCellSwapped(c) ==
  CASE c = "filter_by_tides" -> "compute"
    [] c = "compute" -> "generate_yearly_composites"
    [] c = "generate_yearly_composites" -> "subpixel_contours"
    [] c = "subpixel_contours" -> "contours_preprocess"
    [] c = "contours_preprocess" -> "points_on_line"
    [] c = "points_on_line" -> "annual_movements"
    [] c = "annual_movements" -> "calculate_regressions"
    [] c = "calculate_regressions" -> "export_results"
    [] c = "export_results" -> "close"
    [] OTHER -> "end"

\* The statement after statement c, in the order of the notebook's cells.
NextCell(c) ==
  CASE c = "filter_by_tides" -> "compute"
    [] c = "compute" -> "generate_yearly_composites"
    [] c = "generate_yearly_composites" -> "contours_preprocess"
    [] c = "contours_preprocess" -> "subpixel_contours"
    [] c = "subpixel_contours" -> "points_on_line"
    [] c = "points_on_line" -> "annual_movements"
    [] c = "annual_movements" -> "calculate_regressions"
    [] c = "calculate_regressions" -> "export_results"
    [] c = "export_results" -> "close"
    [] OTHER -> "end"

\* The kernel is at statement c and has not started its call.
At(c) == cell = c /\ ~inCall /\ ~raised

\* The kernel is inside the call of statement c.
In(c) == cell = c /\ inCall /\ ~raised

\* Mutant: the guard without its length test.
HasPointsNoLength == points # NoneValue

\* points_gdf is not None and len(points_gdf) > 0
HasPoints == points # NoneValue /\ points > 0

\* Mutant: the compute line commented out.
AfterComputeSkipped(l) == l

\* What x.compute() leaves of the laziness l of x: the dask graph is
\* evaluated and the result held in memory.
AfterCompute(l) == FALSE

\* A dataset computed from one of laziness l: operations on dask-backed
\* data stay deferred, operations on data in memory are done at once.
DerivedFrom(l) == l

NbInit ==
  /\ cell = "filter_by_tides"
  /\ inCall = FALSE
  /\ raised = FALSE
  /\ stage = [s \in Stages |-> "notrun"]
  \* ds is loaded using dask; the others are not assigned yet
  /\ lazy = [d \in Datasets |-> TRUE]
  /\ contours = {}
  /\ points = NoneValue
  /\ printed = {}
  /\ exported = "no"
  /\ columns = [dist |-> {}, other |-> {}, nan |-> {}]
  /\ traced = [y \in Years |-> {}]
  /\ mask = {}
  /\ readPixels = {}

\* filtered = filter_by_tides(ds, ...)
FilterByTidesCall ==
  /\ At("filter_by_tides")
  /\ inCall' = TRUE
  /\ stage' = [stage EXCEPT !["TideFilter"] = "running"]
  /\ UNCHANGED <<cell, raised, lazy, contours, points, printed, exported>>
  /\ UNCHANGED nbdata
  /\ UNCHANGED <<wfvars, fnvars>>

FilterByTidesReturn ==
  /\ In("filter_by_tides")
  /\ lazy' = [lazy EXCEPT !["filtered"] = DerivedFrom(lazy["ds"])]
  /\ stage' = [stage EXCEPT !["TideFilter"] = "done"]
  /\ inCall' = FALSE
  /\ cell' = NextCell(cell)
  /\ UNCHANGED <<raised, contours, points, printed, exported>>
  /\ UNCHANGED nbdata
  /\ UNCHANGED <<wfvars, fnvars>>

\* filtered = filtered.compute()
ComputeFiltered ==
  /\ At("compute")
  /\ lazy' = [lazy EXCEPT !["filtered"] = AfterCompute(@)]
  /\ cell' = NextCell(cell)
  /\ UNCHANGED <<inCall, raised, stage, contours, points, printed, exported>>
  /\ UNCHANGED nbdata
  /\ UNCHANGED <<wfvars, fnvars>>

\* combined_ds = generate_yearly_composites(filtered, start_year, end_year)
GenerateYearlyCompositesCall ==
  /\ At("generate_yearly_composites")
  /\ inCall' = TRUE
  /\ stage' = [stage EXCEPT !["CompositeBuilder"] = "running"]
  /\ UNCHANGED <<cell, raised, lazy, contours, points, printed, exported>>
  /\ UNCHANGED nbdata
  /\ UNCHANGED <<wfvars, fnvars>>

GenerateYearlyCompositesReturn ==
  /\ In("generate_yearly_composites")
  /\ lazy' = [lazy EXCEPT !["combined_ds"] = DerivedFrom(lazy["filtered"])]
  /\ stage' = [stage EXCEPT !["CompositeBuilder"] = "done"]
  /\ inCall' = FALSE
  /\ cell' = NextCell(cell)
  /\ UNCHANGED <<raised, contours, points, printed, exported>>
  /\ UNCHANGED nbdata
  /\ UNCHANGED <<wfvars, fnvars>>

\* masked_ds, certainty_masks = contours_preprocess(combined_ds=combined_ds, ...)
ContoursPreprocessCall ==
  /\ At("contours_preprocess")
  /\ inCall' = TRUE
  /\ stage' = [stage EXCEPT !["CoastalMasker"] = "running"]
  /\ UNCHANGED <<cell, raised, lazy, contours, points, printed, exported>>
  /\ UNCHANGED nbdata
  /\ UNCHANGED <<wfvars, fnvars>>

ContoursPreprocessReturn ==
  /\ In("contours_preprocess")
  /\ lazy' = [lazy EXCEPT !["masked_ds"] = DerivedFrom(lazy["combined_ds"])]
  /\ \E m \in SUBSET Pixels : mask' = m
  /\ stage' = [stage EXCEPT !["CoastalMasker"] = "done"]
  /\ inCall' = FALSE
  /\ cell' = NextCell(cell)
  /\ UNCHANGED <<raised, contours, points, printed, exported>>
  /\ UNCHANGED <<columns, traced, readPixels>>
  /\ UNCHANGED <<wfvars, fnvars>>

\* contours_gdf = subpixel_contours(da=masked_ds, ...).set_index("year")
SubpixelContoursCall ==
  /\ At("subpixel_contours")
  /\ inCall' = TRUE
  /\ readPixels' = DataPixels(ContourInput)
  /\ stage' = [stage EXCEPT !["ContourExtractor"] = "running"]
  /\ UNCHANGED <<cell, raised, lazy, contours, points, printed, exported>>
  /\ UNCHANGED <<columns, traced, mask>>
  /\ UNCHANGED <<wfvars, fnvars>>

\* Lines are traced through the pixels read, per year; the years with a
\* line of min_vertices vertices or more index the result.
SubpixelContoursReturn ==
  /\ In("subpixel_contours")
  /\ \E tr \in [Years -> SUBSET VertexCounts] :
       /\ readPixels = {} => \A y \in Years : tr[y] = {}
       /\ traced' = tr
       /\ contours' = ContourYears(tr)
  /\ stage' = [stage EXCEPT !["ContourExtractor"] = "done"]
  /\ inCall' = FALSE
  /\ cell' = NextCell(cell)
  /\ UNCHANGED <<raised, lazy, points, printed, exported>>
  /\ UNCHANGED <<columns, mask, readPixels>>
  /\ UNCHANGED <<wfvars, fnvars>>

\* try: points_gdf = points_on_line(contours_gdf, baseline_year, distance=30)
PointsOnLineCall ==
  /\ At("points_on_line")
  /\ inCall' = TRUE
  /\ stage' = [stage EXCEPT !["PointSampler"] = "running"]
  /\ UNCHANGED <<cell, raised, lazy, contours, points, printed, exported>>
  /\ UNCHANGED nbdata
  /\ UNCHANGED <<wfvars, fnvars>>

\* The call returns the points, or raises KeyError when baseline_year does
\* not index contours_gdf: except KeyError prints and sets points_gdf = None.
PointsOnLineReturn ==
  /\ In("points_on_line")
  /\ IF baseline_year \in contours
       THEN /\ \E n \in 0..MaxPoints : points' = n
            /\ printed' = printed
       ELSE /\ points' = NoneValue
            /\ printed' = printed \cup {"Failed to make points"}
  /\ stage' = [stage EXCEPT !["PointSampler"] = "done"]
  /\ inCall' = FALSE
  /\ cell' = NextCell(cell)
  /\ UNCHANGED <<raised, lazy, contours, exported>>
  /\ UNCHANGED nbdata
  /\ UNCHANGED <<wfvars, fnvars>>

\* if points_gdf is not None and len(points_gdf) > 0:
\*     points_gdf = annual_movements(points_gdf, contours_gdf, ...)
\* A call on None raises.
AnnualMovementsCall ==
  /\ At("annual_movements")
  /\ HasPoints
  /\ stage' = [stage EXCEPT !["MovementMeasurer"] = "running"]
  /\ IF points = NoneValue
       THEN raised' = TRUE /\ inCall' = inCall
       ELSE raised' = raised /\ inCall' = TRUE
  /\ UNCHANGED <<cell, lazy, contours, points, printed, exported>>
  /\ UNCHANGED nbdata
  /\ UNCHANGED <<wfvars, fnvars>>

\* The columns annual_movements returns: geometry, a dist_<year> for the
\* years ys it measured, angle_mean and angle_std.
AnnualMovementsColumns(ys) ==
  [dist |-> ys, other |-> {"geometry", "angle_mean", "angle_std"}, nan |-> {}]

\* Mutant: range(start_year, end_year), which leaves end_year out.
ReindexYearsExclusive == start_year..(end_year - 1)

\* range(start_year, end_year + 1)
ReindexYears == start_year..end_year

\* points_gdf.reindex(columns=["geometry", *dist_<i>, "angle_mean",
\* "angle_std"]): the result has exactly the columns asked for, those
\* that cols lacks filled with missing values.
Reindex(cols) ==
  LET other == {"geometry", "angle_mean", "angle_std"}
  IN [dist |-> ReindexYears,
      other |-> other,
      nan |-> (cols.nan \cap ReindexYears) \cup (ReindexYears \ cols.dist)]

\*     points_gdf = points_gdf.reindex(columns=[...])
\* annual_movements has measured the years of some of the contours.
AnnualMovementsReturn ==
  /\ In("annual_movements")
  /\ \E ys \in SUBSET contours :
       columns' = Reindex(AnnualMovementsColumns(ys \cup {baseline_year}))
  /\ stage' = [stage EXCEPT !["MovementMeasurer"] = "done"]
  /\ inCall' = FALSE
  /\ cell' = NextCell(cell)
  /\ UNCHANGED <<raised, lazy, contours, points, printed, exported>>
  /\ UNCHANGED <<traced, mask, readPixels>>
  /\ UNCHANGED <<wfvars, fnvars>>

\* else: print("Something went wrong! Check the points.")
AnnualMovementsElse ==
  /\ At("annual_movements")
  /\ ~HasPoints
  /\ printed' = printed \cup {"Something went wrong! Check the points."}
  /\ stage' = [stage EXCEPT !["MovementMeasurer"] = "skipped"]
  /\ cell' = NextCell(cell)
  /\ UNCHANGED <<inCall, raised, lazy, contours, points, exported>>
  /\ UNCHANGED nbdata
  /\ UNCHANGED <<wfvars, fnvars>>

\* if points_gdf is not None and len(points_gdf) > 0:
\*     points_gdf = calculate_regressions(points_gdf)
RegressionsCall ==
  /\ At("calculate_regressions")
  /\ HasPoints
  /\ stage' = [stage EXCEPT !["StatsEngine"] = "running"]
  /\ IF points = NoneValue
       THEN raised' = TRUE /\ inCall' = inCall
       ELSE raised' = raised /\ inCall' = TRUE
  /\ UNCHANGED <<cell, lazy, contours, points, printed, exported>>
  /\ UNCHANGED nbdata
  /\ UNCHANGED <<wfvars, fnvars>>

\* stats_list
StatsList == {"valid_obs", "valid_span", "sce", "nsm", "max_year", "min_year"}

\*     points_gdf[stats_list] = points_gdf.apply(all_time_stats ...)
\* calculate_regressions keeps the columns it is given (those it adds are
\* not followed); the assignment adds the columns of stats_list.
RegressionsReturn ==
  /\ In("calculate_regressions")
  /\ columns' = [columns EXCEPT !.other = @ \cup StatsList]
  /\ stage' = [stage EXCEPT !["StatsEngine"] = "done"]
  /\ inCall' = FALSE
  /\ cell' = NextCell(cell)
  /\ UNCHANGED <<raised, lazy, contours, points, printed, exported>>
  /\ UNCHANGED <<traced, mask, readPixels>>
  /\ UNCHANGED <<wfvars, fnvars>>

\* The if of the regressions cell has no else: nothing runs.
RegressionsSkip ==
  /\ At("calculate_regressions")
  /\ ~HasPoints
  /\ stage' = [stage EXCEPT !["StatsEngine"] = "skipped"]
  /\ cell' = NextCell(cell)
  /\ UNCHANGED <<inCall, raised, lazy, contours, points, printed, exported>>
  /\ UNCHANGED nbdata
  /\ UNCHANGED <<wfvars, fnvars>>

\* export_results(points_gdf, contours_gdf, version, output_dir, study_area)
ExportResultsCall ==
  /\ At("export_results")
  /\ inCall' = TRUE
  /\ stage' = [stage EXCEPT !["Export"] = "running"]
  /\ UNCHANGED <<cell, raised, lazy, contours, points, printed, exported>>
  /\ UNCHANGED nbdata
  /\ UNCHANGED <<wfvars, fnvars>>

\* What export_results writes: the points when there are any, and the
\* contours; without points it does not fail.
ExportResultsOutcome ==
  IF points # NoneValue /\ points > 0 THEN "points_and_contours" ELSE "contours"

ExportResultsReturn ==
  /\ In("export_results")
  /\ exported' = ExportResultsOutcome
  /\ stage' = [stage EXCEPT !["Export"] = "done"]
  /\ inCall' = FALSE
  /\ cell' = NextCell(cell)
  /\ UNCHANGED <<raised, lazy, contours, points, printed>>
  /\ UNCHANGED nbdata
  /\ UNCHANGED <<wfvars, fnvars>>

\* dask_client.close()
CloseDaskClient ==
  /\ At("close")
  /\ cell' = NextCell(cell)
  /\ UNCHANGED <<inCall, raised, stage, lazy, contours, points, printed, exported>>
  /\ UNCHANGED nbdata
  /\ UNCHANGED <<wfvars, fnvars>>

NbNext ==
  \/ FilterByTidesCall
  \/ FilterByTidesReturn
  \/ ComputeFiltered
  \/ GenerateYearlyCompositesCall
  \/ GenerateYearlyCompositesReturn
  \/ ContoursPreprocessCall
  \/ ContoursPreprocessReturn
  \/ SubpixelContoursCall
  \/ SubpixelContoursReturn
  \/ PointsOnLineCall
  \/ PointsOnLineReturn
  \/ AnnualMovementsCall
  \/ AnnualMovementsReturn
  \/ AnnualMovementsElse
  \/ RegressionsCall
  \/ RegressionsReturn
  \/ RegressionsSkip
  \/ ExportResultsCall
  \/ ExportResultsReturn
  \/ CloseDaskClient

(***************************************************************************)
(* The specifications.                                                     *)
(***************************************************************************)

\* A component that is not being applied.
TideFilterOff == tideFilter = [pc |-> "off"]
CompositeOff == composite = [pc |-> "off"]
MovementOff == movement = [pc |-> "off"]
StatsEngineOff == statsEngine = [pc |-> "off"]
PoolOff == pool = [pc |-> "off"]
RunsOff == runs = [pc |-> "off"]

\* No component is being applied.
FnIdle ==
  /\ TideFilterOff /\ CompositeOff /\ MovementOff /\ StatsEngineOff /\ PoolOff
  /\ RunsOff

Init == WfInit /\ NbInit /\ FnIdle

Next == WfNext

\* A run of the workflow.
Spec == Init /\ [][Next]_vars

\* A run of the workflow under the controller's scheduling: it reconciles
\* the workflow until the DAG is fulfilled, so a task whose depends holds
\* is started, and a started pod runs to its end.
FairSpec == Spec /\ WF_vars(Next)

\* A run of the notebook.
NotebookSpec == Init /\ [][NbNext]_vars

(***************************************************************************)
(* TideFilter: filter_by_tides applied to a stack of observations, each    *)
(* with one modelled tide height (the scene-constant approximation).       *)
(***************************************************************************)

\* The stack has at most MaxObs observations.
MaxObs == 3
\* The tide heights are whole numbers of -MaxTide..MaxTide.
MaxTide == 2

\* "50 percent of the observed tidal range"
RetainPercent == 50
\* The third argument of the call: the tide height the window is centred
\* on, 0.0, mean sea level.
TideCentre == 0

TideHeights == (0 - MaxTide)..MaxTide

Abs(x) == IF x < 0 THEN 0 - x ELSE x

\* The greatest and the least of a non-empty set of numbers.
SetMax(S) == CHOOSE x \in S : \A y \in S : y <= x
SetMin(S) == CHOOSE x \in S : \A y \in S : x <= y

\* The stack of observations with the tide heights hs: observation i
\* carries its identity and its height.
Observations(hs) == [i \in 1..Len(hs) |-> [id |-> i, tide |-> hs[i]]]

\* max - min of the modelled heights over the whole stack.
TidalRange(stack) ==
  LET hs == {stack[i].tide : i \in 1..Len(stack)} IN SetMax(hs) - SetMin(hs)

\* Whether height h lies within RetainPercent of the range, halved, of
\* centre c:  |h - c| <= (RetainPercent / 100) * range / 2.
InTideWindow(h, c, range) == Abs(h - c) * 200 <= RetainPercent * range

\* Mutant: the heights outside the window are clipped to it instead of
\* the observations being dropped.
FilterByTidesClipped(stack, c) ==
  [i \in 1..Len(stack) |->
     IF InTideWindow(stack[i].tide, c, TidalRange(stack))
       THEN stack[i]
       ELSE [id |-> stack[i].id, tide |-> c]]

\* filter_by_tides: the observations of the stack whose height is in the
\* window around c, in their order.
FilterByTides(stack, c) ==
  LET range == TidalRange(stack)
      keep(o) == InTideWindow(o.tide, c, range)
  IN SelectSeq(stack, keep)

\* The stacks drawn: 1 to MaxObs observations.
TideStacks ==
  UNION {[1..n -> TideHeights] : n \in 1..MaxObs}

TideFilterInit ==
  /\ WfInit /\ NbInit
  /\ CompositeOff /\ MovementOff /\ StatsEngineOff /\ PoolOff /\ RunsOff
  /\ \E hs \in TideStacks :
       tideFilter = [pc |-> "call", stack |-> Observations(hs), filtered |-> <<>>]

\* Mutant: the cell keeps the stack as it is, the filter is not applied.
FilterByTidesCellAllKept ==
  /\ tideFilter.pc = "call"
  /\ tideFilter' = [tideFilter EXCEPT !.pc = "done", !.filtered = tideFilter.stack]
  /\ UNCHANGED <<wfvars, nbvars, composite, movement, statsEngine, pool, runs>>

\* filtered = filter_by_tides(ds, "/home/jovyan/tide_models", 0.0, use_highres=False)
FilterByTidesCell ==
  /\ tideFilter.pc = "call"
  /\ tideFilter' = [tideFilter EXCEPT
                      !.pc = "done",
                      !.filtered = FilterByTides(tideFilter.stack, TideCentre)]
  /\ UNCHANGED <<wfvars, nbvars, composite, movement, statsEngine, pool, runs>>

TideFilterSpec == TideFilterInit /\ [][FilterByTidesCell]_vars

(***************************************************************************)
(* StatsEngine: all_time_stats applied to one point record, its distances  *)
(* a function of the years that have one (the others are missing values).  *)
(***************************************************************************)

\* The distances are whole numbers of -MaxDist..MaxDist.
MaxDist == 1

DistValues == (0 - MaxDist)..MaxDist

\* The point records drawn: a distance for any of the years.
PointRecords == UNION {[V -> DistValues] : V \in SUBSET Years}

\* The sum of f over the finite set S.
RECURSIVE SumOver(_, _)
SumOver(S, f) ==
  IF S = {} THEN 0
  ELSE LET x == CHOOSE x \in S : TRUE IN f[x] + SumOver(S \ {x}, f)

\* Net Shoreline Movement: the distance at the latest valid year less the
\* distance at the earliest.
NetShorelineMovement(d, V) == d[SetMax(V)] - d[SetMin(V)]

\* Shoreline Change Envelope: the greatest valid distance less the least.
ShorelineChangeEnvelope(d, V) ==
  LET vals == {d[y] : y \in V} IN SetMax(vals) - SetMin(vals)

\* The slope of the least-squares line of distance against year index, as
\* numerator and denominator: n Sxy - Sx Sy over n Sxx - Sx Sx.
RegressionSlope(d, V, initial) ==
  LET n == Cardinality(V)
      x == [y \in V |-> y - initial]
      sx == SumOver(V, x)
      sy == SumOver(V, d)
      sxy == SumOver(V, [y \in V |-> x[y] * d[y]])
      sxx == SumOver(V, [y \in V |-> x[y] * x[y]])
  IN <<n * sxy - sx * sy, n * sxx - sx * sx>>

\* all_time_stats(x, initial_year) with the regression of the row: the
\* statistics over the valid years from initial_year on.  With fewer than
\* two valid years the regression and the span statistics are missing
\* values.
AllTimeStats(d, initial) ==
  LET V == {y \in DOMAIN d : y >= initial}
      n == Cardinality(V)
  IN IF n < 2
       THEN [valid_obs |-> n,
             missing |-> {"slope", "valid_span", "sce", "nsm"}
                           \cup (IF n = 0 THEN {"max_year", "min_year"} ELSE {}),
             slope |-> <<0, 1>>, valid_span |-> 0, sce |-> 0, nsm |-> 0,
             max_year |-> IF n = 0 THEN 0 ELSE SetMax(V),
             min_year |-> IF n = 0 THEN 0 ELSE SetMax(V)]
       ELSE [valid_obs |-> n,
             missing |-> {},
             slope |-> RegressionSlope(d, V, initial),
             valid_span |-> SetMax(V) - SetMin(V),
             sce |-> ShorelineChangeEnvelope(d, V),
             nsm |-> NetShorelineMovement(d, V),
             max_year |-> SetMin({y \in V : \A z \in V : d[z] <= d[y]}),
             min_year |-> SetMin({y \in V : \A z \in V : d[y] <= d[z]})]

StatsInit ==
  /\ WfInit /\ NbInit
  /\ TideFilterOff /\ CompositeOff /\ MovementOff /\ PoolOff /\ RunsOff
  /\ \E d \in PointRecords :
       statsEngine = [pc |-> "call", dists |-> d, stats |-> [valid_obs |-> 0]]

\* Mutant: the statistics are taken from the baseline year on.
StatsCellFromBaseline ==
  /\ statsEngine.pc = "call"
  /\ statsEngine' = [statsEngine EXCEPT
                       !.pc = "done",
                       !.stats = AllTimeStats(statsEngine.dists, baseline_year)]
  /\ UNCHANGED <<wfvars, nbvars, tideFilter, composite, movement, pool, runs>>

\* points_gdf.apply(lambda x: all_time_stats(x, initial_year=start_year),
\* axis=1), for one row.
StatsCell ==
  /\ statsEngine.pc = "call"
  /\ statsEngine' = [statsEngine EXCEPT
                       !.pc = "done",
                       !.stats = AllTimeStats(statsEngine.dists, start_year)]
  /\ UNCHANGED <<wfvars, nbvars, tideFilter, composite, movement, pool, runs>>

StatsSpec == StatsInit /\ [][StatsCell]_vars

(***************************************************************************)
(* MovementMeasurer: annual_movements for one baseline point, along the    *)
(* normal through the point.  A year's contour is the set of offsets at    *)
(* which it crosses the normal; a year without contour has none.           *)
(***************************************************************************)

\* The offsets along the normal are 0..MaxOffset.
MaxOffset == 1

max_valid_dist == 1200

Offsets == 0..MaxOffset

\* The search distances drawn: the notebook's and two that cut off.
SearchDistances == {0, 1, max_valid_dist}

\* Mutant: the points are sampled on the first year's contour.
PointsOnLineYearFirst == start_year

\* points_on_line(contours_gdf, baseline_year, distance=30): the year of
\* the contour the points are sampled on.
PointsOnLineYear == baseline_year

\* The signed distance from the point at offset p0 to the nearest crossing
\* of the contour c within maxd; the empty set when there is none (NaN).
AnnualDistance(p0, c, maxd) ==
  LET near == {o \in c : /\ Abs(o - p0) <= maxd
                         /\ \A q \in c : Abs(o - p0) <= Abs(q - p0)}
  IN IF near = {} THEN {} ELSE {SetMax(near) - p0}

\* annual_movements: the dist_<year> values of the point, a function of the
\* years that could be measured.
AnnualMovements(p0, cs, maxd) ==
  LET measured == {y \in Years : AnnualDistance(p0, cs[y], maxd) # {}}
  IN [y \in measured |->
        CHOOSE d \in AnnualDistance(p0, cs[y], maxd) : TRUE]

MovementInit ==
  /\ WfInit /\ NbInit
  /\ TideFilterOff /\ CompositeOff /\ StatsEngineOff /\ PoolOff /\ RunsOff
  /\ \E cs \in [Years -> SUBSET Offsets] :
       \E p0 \in cs[PointsOnLineYear] :
         \E maxd \in SearchDistances :
           movement = [pc |-> "call", contours |-> cs, point |-> p0,
                       maxd |-> maxd, dist |-> <<>>]

\* coastlines.vector.annual_movements(points_gdf, contours_gdf, combined_ds,
\* str(baseline_year), water_index, max_valid_dist=...), for one point.
AnnualMovementsCell ==
  /\ movement.pc = "call"
  /\ movement' = [movement EXCEPT
                    !.pc = "done",
                    !.dist = AnnualMovements(movement.point,
                                             movement.contours,
                                             movement.maxd)]
  /\ UNCHANGED <<wfvars, nbvars, tideFilter, composite, statsEngine, pool, runs>>

MovementSpec == MovementInit /\ [][AnnualMovementsCell]_vars

(***************************************************************************)
(* CompositeBuilder: generate_yearly_composites for one pixel.  A year's   *)
(* observations of the pixel are a bag of water index values.              *)
(***************************************************************************)

\* A pixel has at most MaxYearObs observations in a year.
MaxYearObs == 2

\* The water index of an observation, on either side of the threshold.
IndexValues == {0, 1}

\* "datetime": (str(start_year - 1), str(end_year + 1))
LoadedYears == (start_year - 1)..(end_year + 1)

YearBags ==
  {b \in [IndexValues -> 0..MaxYearObs] : SumOver(IndexValues, b) <= MaxYearObs}

BagCount(b) == SumOver(IndexValues, b)

\* The k-th smallest value of the bag b, 1 <= k <= BagCount(b).
KthSmallest(b, k) ==
  SetMin({v \in IndexValues :
            SumOver({u \in IndexValues : u <= v}, b) >= k})

\* Twice the median of the bag b: the middle value counted twice, or the
\* sum of the two middle values.
Median2(b) ==
  LET cnt == BagCount(b)
  IN KthSmallest(b, (cnt + 1) \div 2) + KthSmallest(b, (cnt \div 2) + 1)

\* The observations of the centred 3-year window of year y.
WindowBag(obs, y) ==
  [v \in IndexValues |-> obs[y - 1][v] + obs[y][v] + obs[y + 1][v]]

\* The composite of one year: the median of the year's observations when
\* there are any, else the median of the 3-year window, else no data.
YearlyComposite(obs, y) ==
  IF BagCount(obs[y]) > 0
    THEN [nodata |-> FALSE, gapfill |-> FALSE, median2 |-> Median2(obs[y])]
  ELSE IF BagCount(WindowBag(obs, y)) > 0
    THEN [nodata |-> FALSE, gapfill |-> TRUE,
          median2 |-> Median2(WindowBag(obs, y))]
  ELSE [nodata |-> TRUE, gapfill |-> FALSE, median2 |-> 0]

\* generate_yearly_composites(filtered, start_year, end_year): a composite
\* for every year of the range.
GenerateYearlyComposites(obs, first, last) ==
  [y \in first..last |-> YearlyComposite(obs, y)]

CompositeInit ==
  /\ WfInit /\ NbInit
  /\ TideFilterOff /\ MovementOff /\ StatsEngineOff /\ PoolOff /\ RunsOff
  /\ \E obs \in [LoadedYears -> YearBags] :
       composite = [pc |-> "call", filtered |-> obs, combined_ds |-> <<>>]

\* Mutant: every year's composite is the median of its 3-year window.
GenerateYearlyCompositesCellWindowOnly ==
  /\ composite.pc = "call"
  /\ composite' =
       [composite EXCEPT
          !.pc = "done",
          !.combined_ds =
             [y \in Years |->
                IF BagCount(WindowBag(composite.filtered, y)) > 0
                  THEN [nodata |-> FALSE,
                        gapfill |-> BagCount(composite.filtered[y]) = 0,
                        median2 |-> Median2(WindowBag(composite.filtered, y))]
                  ELSE [nodata |-> TRUE, gapfill |-> FALSE, median2 |-> 0]]]
  /\ UNCHANGED <<wfvars, nbvars, tideFilter, movement, statsEngine, pool, runs>>

\* combined_ds = generate_yearly_composites(filtered, start_year, end_year)
GenerateYearlyCompositesCell ==
  /\ composite.pc = "call"
  /\ composite' =
       [composite EXCEPT
          !.pc = "done",
          !.combined_ds = GenerateYearlyComposites(composite.filtered,
                                                   start_year, end_year)]
  /\ UNCHANGED <<wfvars, nbvars, tideFilter, movement, statsEngine, pool, runs>>

CompositeSpec == CompositeInit /\ [][GenerateYearlyCompositesCell]_vars

(***************************************************************************)
(* The workflow with its process-id tasks counted instead of named, for    *)
(* tile counts about spec.parallelism.  A pod's script is one step here.   *)
(***************************************************************************)

\* generate-ids prints up to parallelism + MaxExtraTiles ids.
MaxExtraTiles == 1

\* The numbers of ids generate-ids may print: below, at and above the limit.
TileCounts == (parallelism - 1)..(parallelism + MaxExtraTiles)

\* The pods that run now: generate-ids, the process-id pods, merge.
PoolRunningPods ==
  pool.running
    + (IF pool.gen = "Running" THEN 1 ELSE 0)
    + (IF pool.merge = "Running" THEN 1 ELSE 0)

\* Mutant: no spec.parallelism.
PoolUnlimited == TRUE

\* spec.parallelism: a pod is started only below the limit.
PoolBelowParallelism == PoolRunningPods < parallelism

PoolInit ==
  /\ WfInit /\ NbInit
  /\ TideFilterOff /\ CompositeOff /\ MovementOff /\ StatsEngineOff /\ RunsOff
  /\ pool = [pc |-> "on", gen |-> "Pending", pending |-> 0, running |-> 0,
             done |-> 0, anySucceeded |-> FALSE, merge |-> "Pending"]

PoolFrame == UNCHANGED <<wfvars, nbvars, tideFilter, composite, movement, statsEngine, runs>>

PoolStartGenerate ==
  /\ pool.gen = "Pending"
  /\ PoolBelowParallelism
  /\ pool' = [pool EXCEPT !.gen = "Running"]
  /\ PoolFrame

\* One process-id task per id printed.
PoolGenerateSucceed ==
  /\ pool.gen = "Running"
  /\ \E k \in TileCounts :
       pool' = [pool EXCEPT !.gen = "Succeeded", !.pending = k]
  /\ PoolFrame

PoolGenerateFail ==
  /\ pool.gen = "Running"
  /\ pool' = [pool EXCEPT !.gen = "Failed"]
  /\ PoolFrame

\* The pod of a pending process-id task is started.
PoolStartProcess ==
  /\ pool.gen = "Succeeded"
  /\ pool.pending > 0
  /\ PoolBelowParallelism
  /\ pool' = [pool EXCEPT !.pending = @ - 1, !.running = @ + 1]
  /\ PoolFrame

\* A process-id pod ends.
PoolProcessEnd ==
  /\ pool.running > 0
  /\ \E ok \in BOOLEAN :
       pool' = [pool EXCEPT !.running = @ - 1, !.done = @ + 1,
                            !.anySucceeded = @ \/ ok]
  /\ PoolFrame

\* The task group process-id is fulfilled.
PoolGroupFulfilled ==
  \/ pool.gen = "Failed"
  \/ pool.gen = "Succeeded" /\ pool.pending = 0 /\ pool.running = 0

PoolStartMerge ==
  /\ pool.merge = "Pending"
  /\ PoolGroupFulfilled
  /\ pool.anySucceeded
  /\ PoolBelowParallelism
  /\ pool' = [pool EXCEPT !.merge = "Running"]
  /\ PoolFrame

PoolOmitMerge ==
  /\ pool.merge = "Pending"
  /\ PoolGroupFulfilled
  /\ ~pool.anySucceeded
  /\ pool' = [pool EXCEPT !.merge = "Omitted"]
  /\ PoolFrame

PoolMergeEnd ==
  /\ pool.merge = "Running"
  /\ \E ok \in BOOLEAN :
       pool' = [pool EXCEPT !.merge = IF ok THEN "Succeeded" ELSE "Failed"]
  /\ PoolFrame

PoolNext ==
  \/ PoolStartGenerate
  \/ PoolGenerateSucceed
  \/ PoolGenerateFail
  \/ PoolStartProcess
  \/ PoolProcessEnd
  \/ PoolStartMerge
  \/ PoolOmitMerge
  \/ PoolMergeEnd

PoolSpec == PoolInit /\ [][PoolNext]_vars

(***************************************************************************)
(* The parameters of the workflow and the commands its tasks run, for two  *)
(* runs side by side that are scheduled alike and meet the same outcomes.  *)
(* Parameter values are strings, as Argo substitutes them.                 *)
(***************************************************************************)

\* The two runs.
RunIds == {"a", "b"}

\* Two of the ids of tiles-subset.
TileIds == {"9,18", "9,19"}

\* Values of image-tag and result-version.
Versions == {"0.3.0", "0.4.0"}

\* Values of result-location: the workflow's, and the same without its
\* trailing slash.
Locations == {"s3://easi-asia-dc-data-projects/coastlines/",
              "s3://easi-asia-dc-data-projects/coastlines"}

\* Values of baseline-year.
BaselineYears == {"2021", "2020"}

\* Values of safe-to-retry.
RetryFlags == {"true", "false"}

\* spec.arguments.parameters, with the values drawn above.
WorkflowParameters(tag, v, loc, by, flag) ==
  [image_tag |-> tag,
   result_version |-> v,
   config |-> "configs/vietnam_coastlines_config.yaml",
   start_year |-> "1985",
   end_year |-> "2022",
   baseline_year |-> by,
   result_location |-> loc,
   overwrite |-> "--no-overwrite",
   safe_to_retry |-> flag]

\* The arguments of the task process-id for the item id.
ProcessArguments(P, id) ==
  [id |-> id,
   config |-> P.config,
   result_version |-> P.result_version,
   result_location |-> P.result_location,
   start_year |-> P.start_year,
   end_year |-> P.end_year,
   baseline_year |-> P.baseline_year,
   overwrite |-> P.overwrite,
   safe_to_retry |-> P.safe_to_retry]

\* Mutant: the version of merge is taken from image-tag.
MergeArgumentsImageTag(P) ==
  [result_version |-> P.image_tag,
   result_location |-> P.result_location,
   baseline_year |-> P.baseline_year]

\* The arguments of the task merge.
MergeArguments(P) ==
  [result_version |-> P.result_version,
   result_location |-> P.result_location,
   baseline_year |-> P.baseline_year]

\* The words of the coastlines-combined command of the template process,
\* its inputs substituted.
CoastlinesCombined(in) ==
  <<"coastlines-combined",
    "--config-path=" \o in.config,
    "--study-area=" \o in.id,
    "--tide-data-location=/tmp/tide_models/",
    "--output-version=" \o in.result_version,
    "--output-location=" \o in.result_location,
    "--start-year", in.start_year,
    "--end-year", in.end_year,
    "--baseline-year", in.baseline_year,
    "--aws-request-payer",
    "--no-aws-unsigned",
    in.overwrite>>

\* The commands of the script of the template process, in order.
ProcessCommands(in) ==
  << <<"wget",
       "https://s3.ap-southeast-2.amazonaws.com/files.auspatious.com/coastlines/vietnam_tide_models.zip",
       "-O", "/tmp/vietnam_tide_models.zip">>,
     <<"unzip", "-qq", "/tmp/vietnam_tide_models.zip", "-d", "/tmp/tide_models_temp">>,
     <<"mv", "/tmp/tide_models_temp/tide_models_clipped", "/tmp/tide_models">>,
     CoastlinesCombined(in) >>

\* The words of the coastlines-merge command of the template
\* merge-continental, its inputs substituted.
CoastlinesMerge(in) ==
  <<"coastlines-merge",
    "--input-location=" \o in.result_location \o "/" \o in.result_version,
    "--output-location=" \o in.result_location,
    "--output-version=" \o in.result_version,
    "--baseline-year=" \o in.baseline_year,
    "--output-crs=EPSG:3405">>

\* Mutant: a retryStrategy on the template process whose limit is taken
\* from safe-to-retry.
ProcessRetriesWhenSafe(in) == IF in.safe_to_retry = "true" THEN 1 ELSE 0

\* The retries the template process grants a failed pod: it has no
\* retryStrategy.
ProcessRetries(in) == 0

\* A run whose tasks have not started.
NewRun(P) ==
  [params |-> P,
   task |-> [id \in TileIds |->
               [phase |-> "Pending", attempts |-> 0,
                inputs |-> <<>>, commands |-> <<>>]],
   merge |-> [phase |-> "Pending", inputs |-> <<>>, command |-> <<>>]]

\* The run after the pod of process-id(id) is started, if the task is
\* pending: the template is given the task's arguments and runs its script.
StartedProcess(run, id) ==
  IF run.task[id].phase = "Pending"
    THEN [run EXCEPT
            !.task[id] =
               [phase |-> "Running",
                attempts |-> @.attempts + 1,
                inputs |-> ProcessArguments(run.params, id),
                commands |-> ProcessCommands(ProcessArguments(run.params, id))]]
    ELSE run

\* The run after the pod of process-id(id) ends, if it runs: a failed pod
\* is started again while the template grants a retry.
ExitedProcess(run, id, ok) ==
  IF run.task[id].phase = "Running"
    THEN [run EXCEPT
            !.task[id].phase =
               IF ok THEN "Succeeded"
               ELSE IF run.task[id].attempts <= ProcessRetries(run.task[id].inputs)
                 THEN "Pending"
               ELSE "Failed"]
    ELSE run

\* The process-id tasks of the run are all fulfilled.
RunGroupFulfilled(run) == \A id \in TileIds : Fulfilled(run.task[id].phase)

\* The run after the depends of merge is evaluated, if it can be: merge is
\* given its arguments and runs its command, or is omitted.
AssessedMerge(run) ==
  IF run.merge.phase = "Pending" /\ RunGroupFulfilled(run)
    THEN IF \E id \in TileIds : run.task[id].phase = "Succeeded"
           THEN [run EXCEPT
                   !.merge = [phase |-> "Running",
                              inputs |-> MergeArguments(run.params),
                              command |-> CoastlinesMerge(MergeArguments(run.params))]]
           ELSE [run EXCEPT !.merge.phase = "Omitted"]
    ELSE run

\* The run after coastlines-merge ends, if it runs.
ExitedMerge(run, ok) ==
  IF run.merge.phase = "Running"
    THEN [run EXCEPT !.merge.phase = IF ok THEN "Succeeded" ELSE "Failed"]
    ELSE run

\* The runs are submitted with the same parameters but for safe-to-retry.
RunsInit ==
  /\ WfInit /\ NbInit
  /\ TideFilterOff /\ CompositeOff /\ MovementOff /\ StatsEngineOff /\ PoolOff
  /\ \E tag, v \in Versions :
       \E loc \in Locations :
         \E by \in BaselineYears :
           \E flag \in [RunIds -> RetryFlags] :
             runs = [pc |-> "on",
                     run |-> [r \in RunIds |->
                                NewRun(WorkflowParameters(tag, v, loc, by, flag[r]))]]

RunsFrame == UNCHANGED <<wfvars, nbvars, tideFilter, composite, movement, statsEngine, pool>>

\* The pod of process-id(id) is started in the runs where it is pending.
RunsStartProcess(id) ==
  /\ \E r \in RunIds : runs.run[r].task[id].phase = "Pending"
  /\ runs' = [runs EXCEPT !.run = [r \in RunIds |-> StartedProcess(@[r], id)]]
  /\ RunsFrame

\* The pod of process-id(id) ends, alike in the runs where it runs.
RunsProcessExit(id) ==
  /\ \E r \in RunIds : runs.run[r].task[id].phase = "Running"
  /\ \E ok \in BOOLEAN :
       runs' = [runs EXCEPT !.run = [r \in RunIds |-> ExitedProcess(@[r], id, ok)]]
  /\ RunsFrame

\* The depends of merge is evaluated in the runs where it can be.
RunsAssessMerge ==
  /\ \E r \in RunIds :
       runs.run[r].merge.phase = "Pending" /\ RunGroupFulfilled(runs.run[r])
  /\ runs' = [runs EXCEPT !.run = [r \in RunIds |-> AssessedMerge(@[r])]]
  /\ RunsFrame

\* coastlines-merge ends, alike in the runs where it runs.
RunsMergeExit ==
  /\ \E r \in RunIds : runs.run[r].merge.phase = "Running"
  /\ \E ok \in BOOLEAN :
       runs' = [runs EXCEPT !.run = [r \in RunIds |-> ExitedMerge(@[r], ok)]]
  /\ RunsFrame

RunsNext ==
  \/ \E id \in TileIds : RunsStartProcess(id)
  \/ \E id \in TileIds : RunsProcessExit(id)
  \/ RunsAssessMerge
  \/ RunsMergeExit

RunsSpec == RunsInit /\ [][RunsNext]_vars

(***************************************************************************)
(* The claims about the workflow.                                          *)
(***************************************************************************)

TileTerminal(t) == proc[t] \in {"Succeeded", "Failed"}
AllTilesTerminal == gen = "Succeeded" /\ \A t \in ids : TileTerminal(t)
MergeStarted == merge \in {"Running", "Succeeded", "Failed"}

\* C1: merge never starts while a process-id task is pending or running:
\* whenever merge has started, generate-ids has succeeded and every tile
\* it generated is succeeded or failed.
C1_MergeIsBarrier == MergeStarted => AllTilesTerminal

\* merge runs after a tile failed and another succeeded.
C1_Witness ==
  /\ merge = "Running"
  /\ \E t, u \in ids : proc[t] = "Failed" /\ proc[u] = "Succeeded"

\* C2: once every tile is terminal and at least one succeeded, merge is
\* eventually started, however many tiles failed.
C2_MergeOnAnySubset == (AllTilesTerminal /\ AnySucceeded) ~> MergeStarted

\* merge has started with one tile succeeded and all the others failed.
C2_Witness ==
  /\ MergeStarted
  /\ Cardinality(ids) = MaxTiles
  /\ Cardinality({t \in ids : proc[t] = "Succeeded"}) = 1
  /\ Cardinality({t \in ids : proc[t] = "Failed"}) = MaxTiles - 1

\* C3: the workflow does not end while a tile or merge is unfinished; it
\* ends failed with merge not run exactly when no process-id task
\* succeeded; it ends failed only with merge omitted or failed; with a
\* succeeded tile and a succeeded merge it ends succeeded.
C3_OnlyMergeFatal ==
  /\ wf # "Running" => Fulfilled(merge) /\ \A t \in ids : TileTerminal(t)
  /\ wf # "Running" => ((merge = "Omitted" /\ wf = "Failed") <=> ~AnySucceeded)
  /\ wf = "Failed" => merge \in {"Omitted", "Failed"}
  /\ wf # "Running" /\ AnySucceeded /\ merge = "Succeeded" => wf = "Succeeded"

\* The workflow succeeded although a tile failed.
C3_Witness == wf = "Succeeded" /\ \E t \in ids : proc[t] = "Failed"

\* C4: coastlines-combined is started only with the tide models downloaded,
\* unpacked and moved to /tmp/tide_models: never after wget, unzip or mv
\* failed.
C4_CombinedAfterTideModels ==
  \A t \in Tiles :
    pc[t] \in {"in_combined", "exit_ok", "exit_combined"}
      => tideModels[t] /\ dlFailed[t] = "none"

\* C5: a failed download of the tide model archive is attempted again: no
\* tile is terminal after a failed wget with wget run only once.
C5_DownloadRetried ==
  \A t \in Tiles : dlFailed[t] = "wget" /\ TileTerminal(t) => wgetRuns[t] >= 2

\* C6: a process-id task is executed at most once; a tile whose
\* coastlines-combined failed is recorded failed, the pending tiles can
\* still be started and merge can still be started once its depends holds.
C6_FailureNotRetried ==
  \A t \in ids :
    /\ attempts[t] <= 1
    /\ pc[t] = "exit_combined" =>
         /\ proc[t] = "Failed"
         /\ \A u \in ids \ {t} :
              proc[u] = "Pending" /\ BelowParallelism => ENABLED StartProcess(u)
         /\ AllTilesTerminal /\ AnySucceeded /\ merge = "Pending" /\ BelowParallelism
              => ENABLED StartMerge

\* coastlines-combined failed for a tile, run once, and merge runs.
C6_Witness ==
  \E t \in ids : pc[t] = "exit_combined" /\ attempts[t] = 1 /\ merge = "Running"

\* The state of tile t: all of it that its task reads or writes.
TileState(t) == <<proc[t], pc[t], tideModels[t], attempts[t], wgetRuns[t], dlFailed[t]>>

\* A step of the script of tile u.
TileStep(u) == Wget(u) \/ Unzip(u) \/ Mv(u) \/ CombinedStart(u) \/ CombinedEnd(u)

\* C7: with a tile failed, any other tile can still be started, can still
\* take its next step and can still succeed; and a step that changes one
\* tile's state leaves every other tile's state as it is.
C7_FailureIsolated ==
  /\ [](\A t \in ids : proc[t] = "Failed" =>
          \A u \in ids \ {t} :
            /\ proc[u] = "Pending" /\ BelowParallelism => ENABLED StartProcess(u)
            /\ proc[u] = "Running" => ENABLED TileStep(u)
            /\ pc[u] = "in_combined" => ENABLED (CombinedEnd(u) /\ proc'[u] = "Succeeded"))
  /\ [][gen = "Succeeded" =>
          \A t, u \in Tiles :
            t # u /\ TileState(t)' # TileState(t) => TileState(u)' = TileState(u)]_vars

\* A tile failed while a second is not started and a third runs.
C7_Witness ==
  \E t, u, v \in ids :
    proc[t] = "Failed" /\ proc[u] = "Pending" /\ proc[v] = "Running"

(***************************************************************************)
(* The claims about the notebook.                                          *)
(***************************************************************************)

\* points_on_line has run and left no points.
NoPoints == stage["PointSampler"] = "done" /\ (points = NoneValue \/ points = 0)

\* C8: with no points after points_on_line (KeyError, or an empty result),
\* annual_movements and the regressions are never called, the message of
\* the else branch is printed, nothing raises, every remaining statement
\* can run, and the run ends with the export done.
C8_NoPointsShortCircuit ==
  NoPoints =>
    /\ stage["MovementMeasurer"] \in {"notrun", "skipped"}
    /\ stage["StatsEngine"] \in {"notrun", "skipped"}
    /\ ~raised
    /\ cell \in {"calculate_regressions", "export_results", "close", "end"}
         => "Something went wrong! Check the points." \in printed
    /\ cell # "end" => ENABLED NbNext
    /\ cell = "end" => stage["Export"] = "done" /\ exported = "contours"

\* The run ended after the KeyError of points_on_line.
C8_Witness ==
  /\ cell = "end"
  /\ points = NoneValue
  /\ "Failed to make points" \in printed
  /\ stage["Export"] = "done"

\* The chain of stages the claim gives.
StageChain ==
  <<"TideFilter", "CompositeBuilder", "CoastalMasker", "ContourExtractor",
    "PointSampler", "MovementMeasurer", "StatsEngine", "Export">>

Started(s) == stage[s] \in {"running", "done"}

\* C9 as stated: a stage is started only after its predecessor in the
\* chain has finished.
C9_StrictChain ==
  \A i \in 2..Len(StageChain) :
    Started(StageChain[i]) => stage[StageChain[i - 1]] = "done"

\* C9 amended: a stage is started only after its predecessor has finished
\* or has been skipped; only MovementMeasurer and StatsEngine are skipped,
\* and only without points; a stage is skipped only after its predecessor
\* has finished or been skipped; no two stages run at once.
C9_ChainWithSkips ==
  /\ \A i \in 2..Len(StageChain) :
       stage[StageChain[i]] # "notrun"
         => stage[StageChain[i - 1]] \in {"done", "skipped"}
  /\ \A s \in Stages :
       stage[s] = "skipped" => s \in {"MovementMeasurer", "StatsEngine"} /\ ~HasPoints
  /\ Cardinality({s \in Stages : stage[s] = "running"}) <= 1

\* The export runs after every stage before it finished.
C9_Witness ==
  /\ stage["Export"] = "running"
  /\ \A i \in 1..(Len(StageChain) - 1) : stage[StageChain[i]] = "done"

\* C10: once subpixel_contours has started, combined_ds is in memory, not
\* a deferred graph.
C10_MaterializedBeforeContours ==
  stage["ContourExtractor"] # "notrun" => ~lazy["combined_ds"]

\* subpixel_contours runs on the computed composites.
C10_Witness ==
  /\ stage["ContourExtractor"] = "running"
  /\ ~lazy["combined_ds"]
  /\ ~lazy["filtered"]

(***************************************************************************)
(* The claims about TideFilter.                                            *)
(***************************************************************************)

\* Observation o of the stack is in the filtered stack.
Retained(o) ==
  \E j \in 1..Len(tideFilter.filtered) : tideFilter.filtered[j] = o

\* C11: every observation of the filtered stack is an observation of the
\* input stack, unchanged and at most once; the filtered stack is no
\* longer than the input; and the call ends for every stack, also when
\* nothing passes.
C11_FilteredIsSubset ==
  /\ tideFilter.pc = "call" => ENABLED FilterByTidesCell
  /\ tideFilter.pc = "done" =>
       LET in == tideFilter.stack
           out == tideFilter.filtered
       IN /\ \A j \in 1..Len(out) : \E i \in 1..Len(in) : out[j] = in[i]
          /\ \A j, k \in 1..Len(out) : j # k => out[j].id # out[k].id
          /\ Len(out) <= Len(in)

\* The call ended with no observation retained out of several.
C11_Witness ==
  /\ tideFilter.pc = "done"
  /\ Len(tideFilter.stack) >= 2
  /\ tideFilter.filtered = <<>>

RECURSIVE SumTides(_)
SumTides(stack) ==
  IF stack = <<>> THEN 0 ELSE Head(stack).tide + SumTides(Tail(stack))

\* C12 as stated: the observations retained are exactly those within
\* 0.5 * range / 2 of the stack's mean height (n * h against the sum, to
\* stay in whole numbers).
C12_WindowAroundStackMean ==
  tideFilter.pc = "done" =>
    LET in == tideFilter.stack
        n == Len(in)
    IN \A i \in 1..n :
         Retained(in[i]) <=>
           Abs(n * in[i].tide - SumTides(in)) * 4 <= TidalRange(in) * n

\* C12 amended: the observations retained are exactly those within
\* 0.5 * range / 2, a quarter of the range, of the tide centre passed by
\* the cell, 0.0.
C12_WindowAroundTideCentre ==
  tideFilter.pc = "done" =>
    LET in == tideFilter.stack
    IN \A i \in 1..Len(in) :
         Retained(in[i]) <=> Abs(in[i].tide - TideCentre) * 4 <= TidalRange(in)

\* The filter kept one observation and dropped another, of a stack whose
\* mean is not the centre.
C12_Witness ==
  /\ tideFilter.pc = "done"
  /\ SumTides(tideFilter.stack) # TideCentre
  /\ \E i, k \in 1..Len(tideFilter.stack) :
       Retained(tideFilter.stack[i]) /\ ~Retained(tideFilter.stack[k])

(***************************************************************************)
(* The claims about the point records.                                     *)
(***************************************************************************)

\* C13: once annual_movements and the reindex are done, the point records
\* carry dist_<year> for every year of start_year..end_year, a year
\* without a contour as a column of missing values, and angle_mean and
\* angle_std; once the statistics are done they carry valid_obs,
\* valid_span, sce, nsm, max_year and min_year too; the exported points
\* carry all of them.
C13_PointRecordSchema ==
  LET afterMovements ==
        /\ \A y \in start_year..end_year : y \in columns.dist
        /\ \A y \in (start_year..end_year) \ contours : y \in columns.nan
        /\ {"angle_mean", "angle_std"} \subseteq columns.other
      afterStats ==
        {"valid_obs", "valid_span", "sce", "nsm", "max_year", "min_year"}
          \subseteq columns.other
  IN /\ stage["MovementMeasurer"] = "done" => afterMovements
     /\ stage["StatsEngine"] = "done" => afterMovements /\ afterStats
     /\ exported = "points_and_contours" => afterMovements /\ afterStats

\* The points were exported with end_year without a contour.
C13_Witness ==
  /\ exported = "points_and_contours"
  /\ end_year \notin contours
  /\ end_year \in columns.nan

(***************************************************************************)
(* The claims about StatsEngine.                                           *)
(***************************************************************************)

\* C14: for every point record the statistics are computed; with two or
\* more valid distances NSM is the distance at the latest valid year less
\* that at the earliest, SCE is the greatest valid distance less the
\* least and is not negative, and neither they nor the slope are missing;
\* with fewer than two, NSM, SCE and slope are missing values.
C14_NetMovementAndEnvelope ==
  /\ statsEngine.pc = "call" => ENABLED StatsCell
  /\ statsEngine.pc = "done" =>
       LET d == statsEngine.dists
           st == statsEngine.stats
           V == DOMAIN d
       IN /\ st.valid_obs = Cardinality(V)
          /\ IF Cardinality(V) < 2
               THEN {"nsm", "sce", "slope"} \subseteq st.missing
               ELSE /\ {"nsm", "sce", "slope"} \cap st.missing = {}
                    /\ \E first, last \in V :
                         /\ \A y \in V : first <= y /\ y <= last
                         /\ st.nsm = d[last] - d[first]
                    /\ \E lo, hi \in V :
                         /\ \A y \in V : d[lo] <= d[y] /\ d[y] <= d[hi]
                         /\ st.sce = d[hi] - d[lo]
                    /\ st.sce >= 0

\* The statistics of a record with the middle year missing, which moved
\* back: NSM negative, SCE positive.
C14_Witness ==
  /\ statsEngine.pc = "done"
  /\ DOMAIN statsEngine.dists = {start_year, end_year}
  /\ statsEngine.stats.nsm < 0
  /\ statsEngine.stats.sce > 0

(***************************************************************************)
(* The claims about MovementMeasurer.                                      *)
(***************************************************************************)

\* C15: for every baseline point, whatever the yearly contours and the
\* maximum valid distance, the distance recorded for the baseline year is
\* measured and is exactly 0.
C15_BaselineDistanceZero ==
  movement.pc = "done" =>
    /\ baseline_year \in DOMAIN movement.dist
    /\ movement.dist[baseline_year] = 0

\* A point measured with search distance 0 whose baseline contour crosses
\* the normal twice and whose last year's contour is out of reach.
C15_Witness ==
  /\ movement.pc = "done"
  /\ movement.maxd = 0
  /\ Cardinality(movement.contours[baseline_year]) = 2
  /\ movement.contours[end_year] # {}
  /\ end_year \notin DOMAIN movement.dist
  /\ movement.dist[baseline_year] = 0

(***************************************************************************)
(* The claims about CompositeBuilder.                                      *)
(***************************************************************************)

\* v is the k-th smallest value of the bag b: fewer than k values are
\* below v and at least k are not above it.
IsKth(b, k, v) ==
  /\ SumOver({u \in IndexValues : u < v}, b) < k
  /\ SumOver({u \in IndexValues : u <= v}, b) >= k

\* m2 is twice the median of the bag b.
IsMedian2(b, m2) ==
  LET cnt == SumOver(IndexValues, b)
  IN \E lo, hi \in IndexValues :
       /\ IsKth(b, (cnt + 1) \div 2, lo)
       /\ IsKth(b, (cnt \div 2) + 1, hi)
       /\ m2 = lo + hi

\* C16: for the pixel and every year, the composite is the median of the
\* year's observations when there are any; only when there are none is it
\* the median of the centred 3-year window; and when the window has none
\* either the pixel is marked no-data.
C16_MedianOrGapfill ==
  composite.pc = "done" =>
    /\ DOMAIN composite.combined_ds = Years
    /\ \A y \in Years :
         LET obs == composite.filtered
             out == composite.combined_ds[y]
             window == [v \in IndexValues |->
                          obs[y - 1][v] + obs[y][v] + obs[y + 1][v]]
         IN IF SumOver(IndexValues, obs[y]) > 0
              THEN ~out.nodata /\ ~out.gapfill /\ IsMedian2(obs[y], out.median2)
            ELSE IF SumOver(IndexValues, window) > 0
              THEN ~out.nodata /\ out.gapfill /\ IsMedian2(window, out.median2)
            ELSE out.nodata

\* A pixel whose first year has a direct median that differs from the
\* median of its window, and whose last year is gapfilled.
C16_Witness ==
  /\ composite.pc = "done"
  /\ ~composite.combined_ds[start_year].nodata
  /\ ~composite.combined_ds[start_year].gapfill
  /\ composite.combined_ds[start_year].median2
       # Median2(WindowBag(composite.filtered, start_year))
  /\ composite.combined_ds[end_year].gapfill

(***************************************************************************)
(* The claims about ContourExtractor.                                      *)
(***************************************************************************)

\* A year whose traced lines all have fewer than min_vertices vertices.
NoQualifyingLine(y) == \A v \in traced[y] : v < min_vertices

\* C17: once the contours are extracted, a year indexes the contours only
\* if one of its traced lines has at least min_vertices vertices, so a year
\* with only shorter lines is absent; the absence raises nothing: without
\* the baseline year the point sampler gives no points and says so, and a
\* missing year's distance column of the point records holds missing
\* values.
C17_ShortLinesDropped ==
  stage["ContourExtractor"] = "done" =>
    /\ \A y \in Years : NoQualifyingLine(y) => y \notin contours
    /\ ~raised
    /\ (stage["PointSampler"] = "done" /\ NoQualifyingLine(baseline_year)) =>
         /\ points = NoneValue
         /\ "Failed to make points" \in printed
    /\ stage["MovementMeasurer"] = "done" =>
         \A y \in Years : NoQualifyingLine(y) => y \in columns.nan

\* The run is over, the first year had only a line one vertex short, and
\* its distances are missing values in the point records.
C17_Witness ==
  /\ cell = "end"
  /\ traced[start_year] = {min_vertices - 1}
  /\ start_year \notin contours
  /\ stage["StatsEngine"] = "done"
  /\ start_year \in columns.nan

\* C18: the pixels read by the contour extraction are pixels of the
\* coastal mask, and without any no line is traced in any year.
C18_OnlyMaskedPixelsRead ==
  stage["ContourExtractor"] # "notrun" =>
    /\ readPixels \subseteq mask
    /\ readPixels = {} => \A y \in Years : traced[y] = {} /\ y \notin contours

\* Contours were extracted from a mask that leaves a pixel out.
C18_Witness ==
  /\ stage["ContourExtractor"] = "done"
  /\ mask # Pixels
  /\ readPixels = mask
  /\ contours # {}

(***************************************************************************)
(* The claims about the fan-out of the workflow.                           *)
(***************************************************************************)

\* The tiles that have a process-id task.
ProcessTasks == {t \in Tiles : proc[t] # "Absent"}

\* C19: a process-id task exists, and so is started, only once generate-ids
\* has succeeded; the tasks are then those of the ids generate-ids printed,
\* one each, and no pod is started for another tile; and once generate-ids
\* has failed there is no process-id task and merge is never started.
C19_FanOutGated ==
  /\ ProcessTasks # {} => gen = "Succeeded"
  /\ gen = "Succeeded" => ProcessTasks = ids
  /\ \A t \in Tiles : attempts[t] > 0 => gen = "Succeeded" /\ t \in ids
  /\ gen = "Failed" =>
       /\ ProcessTasks = {}
       /\ \A t \in Tiles : attempts[t] = 0
       /\ ~MergeStarted

\* generate-ids printed some of the tiles, the pod of one of them runs and
\* a tile it did not print has no task.
C19_Witness ==
  /\ gen = "Succeeded"
  /\ ids # Tiles
  /\ \E t \in ids : proc[t] = "Running"
  /\ \E t \in Tiles \ ids : proc[t] = "Absent" /\ attempts[t] = 0

(***************************************************************************)
(* The claims about the parallelism of the workflow.                       *)
(***************************************************************************)

\* C20: in every state of a run, whatever the number of tiles, the
\* process-id pods and the merge pod that run together are at most
\* parallelism.
C20_ParallelismRespected ==
  pool.running + (IF pool.merge = "Running" THEN 1 ELSE 0) <= parallelism

\* The limit holds tasks back: parallelism pods run and a task waits.
C20_Witness ==
  /\ pool.running = parallelism
  /\ pool.pending > 0

(***************************************************************************)
(* The claims about the parameters of the workflow's tasks.                *)
(***************************************************************************)

\* The word w is one of the words of the command.
HasWord(command, w) == \E i \in 1..Len(command) : command[i] = w

\* The option opt of the command is followed by the value val.
HasOption(command, opt, val) ==
  \E i \in 1..(Len(command) - 1) : command[i] = opt /\ command[i + 1] = val

\* C21: in every run, once merge is invoked, it was given the
\* result-version, result-location and baseline-year every process-id task
\* was given; coastlines-merge reads <location>/<version> of the location
\* and version coastlines-combined was told to write, and writes at that
\* location and version in EPSG:3405.
C21_MergeReadsWhatTilesWrote ==
  \A r \in RunIds :
    LET run == runs.run[r] IN
    run.merge.phase \in {"Running", "Succeeded", "Failed"} =>
      /\ HasWord(run.merge.command, "--output-crs=EPSG:3405")
      /\ \A id \in TileIds :
           LET in == run.task[id].inputs
               combined == run.task[id].commands[Len(run.task[id].commands)]
           IN /\ run.task[id].attempts > 0
              /\ run.merge.inputs.result_version = in.result_version
              /\ run.merge.inputs.result_location = in.result_location
              /\ run.merge.inputs.baseline_year = in.baseline_year
              /\ \E v \in Versions, loc \in Locations, by \in BaselineYears :
                   /\ HasWord(combined, "--output-version=" \o v)
                   /\ HasWord(combined, "--output-location=" \o loc)
                   /\ HasOption(combined, "--baseline-year", by)
                   /\ HasWord(run.merge.command,
                              "--input-location=" \o loc \o "/" \o v)
                   /\ HasWord(run.merge.command, "--output-location=" \o loc)
                   /\ HasWord(run.merge.command, "--output-version=" \o v)
                   /\ HasWord(run.merge.command, "--baseline-year=" \o by)

\* merge runs after one tile succeeded and the other failed, with an
\* image-tag that is not the result-version.
C21_Witness ==
  /\ runs.run["a"].merge.phase = "Running"
  /\ runs.run["a"].params.image_tag # runs.run["a"].params.result_version
  /\ runs.run["a"].task["9,18"].phase = "Succeeded"
  /\ runs.run["a"].task["9,19"].phase = "Failed"

\* What a run did: for each tile the commands that were run, the pods
\* started and the phase; and the phase and command of merge.
Executed(run) ==
  [task |-> [id \in TileIds |->
               [commands |-> run.task[id].commands,
                attempts |-> run.task[id].attempts,
                phase |-> run.task[id].phase]],
   merge |-> [phase |-> run.merge.phase, command |-> run.merge.command]]

\* C22: two runs that differ only in safe-to-retry, scheduled alike and
\* meeting the same outcomes, run the same commands with the same words for
\* every tile, start the same number of pods and end in the same phases,
\* although each process-id task is given the flag of its run.
C22_RetryFlagHasNoEffect ==
  /\ Executed(runs.run["a"]) = Executed(runs.run["b"])
  /\ \A r \in RunIds : \A id \in TileIds :
       runs.run[r].task[id].attempts > 0 =>
         runs.run[r].task[id].inputs.safe_to_retry = runs.run[r].params.safe_to_retry

\* The runs differ in the flag, a tile has failed in both after one pod and
\* the other tile's commands were run.
C22_Witness ==
  /\ runs.run["a"].params.safe_to_retry = "true"
  /\ runs.run["b"].params.safe_to_retry = "false"
  /\ runs.run["a"].task["9,18"].phase = "Failed"
  /\ runs.run["b"].task["9,18"].phase = "Failed"
  /\ runs.run["a"].task["9,18"].attempts = 1
  /\ runs.run["b"].task["9,19"].phase = "Succeeded"

====
